---------------------------- MODULE Spec2Model ----------------------------
(***************************************************************************)
(* Model of the forecasting engine of DataVisionAI                         *)
(* (src/utils/forecasting.py): forecast_linear, forecast_polynomial and    *)
(* forecast_by_region, as a state machine over one dataset and one call,   *)
(* and of the two pages that call them (src/pages/forecasting.py,          *)
(* src/dashboard_pages.py), as one rerun of a page over the cleaned data.  *)
(*                                                                         *)
(* A dataset is a pandas DataFrame: the set of its column names and the    *)
(* sequence of its rows, a row being a record over exactly those columns.  *)
(* Numbers are exact rationals [num, den] in lowest terms (the code uses   *)
(* float64; the model idealises rounding away).  A polynomial prediction   *)
(* is kept symbolic: the fitted pipeline applied to a period.              *)
(*                                                                         *)
(* The data layer (src/utils/data_processor.py, data_loader.py,            *)
(* database.py) and the session state of src/app.py are modelled beside    *)
(* it: db is the content of the ev_data table, session_state the           *)
(* st.session_state entries that app.py keeps between reruns.              *)
(***************************************************************************)
EXTENDS Integers, Sequences, FiniteSets, TLC

VARIABLES data, call, result, page, db, session_state

vars == <<data, call, result, page, db, session_state>>

(***************************************************************************)
(* Bounds of the model.                                                    *)
(***************************************************************************)
MaxRows == 4
MaxBatchRows == 6
MaxPeriods == 2
MaxDegree == 3
MaxLineRows == 3
MaxRawRows == 2
MaxCsvRows == 2
MaxStoredRows == 3
MaxGrowthRows == 3

Years == {1, 2, 3}
Sales == {30, 70}
Regions == {"A", "B"}
BatchYears == {1, 2}
BatchSales == {30}
LineYears == {2010, 2011, 2012}
LineSales == {100, 200, 300}
Periods == (0 - 1) .. MaxPeriods
Degrees == 2 .. MaxDegree
Methods == {"linear", "polynomial", "Polynomial"}

(***************************************************************************)
(* Column names: the default arguments of the three functions.             *)
(***************************************************************************)
time_col == "year"
target_col == "sales"
region_col == "region"

(***************************************************************************)
(* Exact rational arithmetic.                                              *)
(***************************************************************************)
Abs(n) == IF n < 0 THEN 0 - n ELSE n

RECURSIVE GCD(_, _)
GCD(a, b) == IF b = 0 THEN a ELSE GCD(b, a % b)

Rat(n, d) ==
    LET g == GCD(Abs(n), Abs(d))
        s == IF d < 0 THEN 0 - 1 ELSE 1
    IN  [num |-> (s * n) \div g, den |-> (s * d) \div g]

RInt(n) == [num |-> n, den |-> 1]
RAdd(a, b) == Rat(a.num * b.den + b.num * a.den, a.den * b.den)
RSub(a, b) == Rat(a.num * b.den - b.num * a.den, a.den * b.den)
RMul(a, b) == Rat(a.num * b.num, a.den * b.den)
RDiv(a, b) == Rat(a.num * b.den, a.den * b.num)

(***************************************************************************)
(* DataFrame helpers.                                                      *)
(***************************************************************************)
EmptyDataFrame == <<>>

None == [kind |-> "None"]

RECURSIVE SumSeq(_)
SumSeq(s) == IF s = <<>> THEN 0 ELSE Head(s) + SumSeq(Tail(s))

RECURSIVE SortedSeq(_)
SortedSeq(S) ==
    IF S = {} THEN <<>>
    ELSE LET m == CHOOSE x \in S : \A y \in S : x <= y
         IN  <<m>> \o SortedSeq(S \ {m})

\* Variant: groupby(...).first() in place of sum().
GroupByFirst(rows) ==
    LET keys == SortedSeq({rows[i][time_col] : i \in DOMAIN rows})
        First(k) == CHOOSE i \in DOMAIN rows :
                        /\ rows[i][time_col] = k
                        /\ \A j \in DOMAIN rows : rows[j][time_col] = k => i <= j
    IN  [j \in DOMAIN keys |->
            [year |-> keys[j], sales |-> rows[First(keys[j])][target_col]]]

\* data.groupby(time_col)[target_col].sum().reset_index(): one row per distinct
\* key, keys ascending (groupby sorts its keys), value the sum over the group.
GroupBySum(rows) ==
    LET keys == SortedSeq({rows[i][time_col] : i \in DOMAIN rows})
        Col(k) == [i \in DOMAIN rows |->
                      IF rows[i][time_col] = k THEN rows[i][target_col] ELSE 0]
    IN  [j \in DOMAIN keys |->
            [year |-> keys[j], sales |-> SumSeq(Col(keys[j]))]]

\* time_series.sort_values(time_col): a stable insertion sort on the period.
RECURSIVE InsertByTime(_, _)
InsertByTime(r, s) ==
    IF s = <<>> THEN <<r>>
    ELSE IF r[time_col] < Head(s)[time_col] THEN <<r>> \o s
    ELSE <<Head(s)>> \o InsertByTime(r, Tail(s))

RECURSIVE SortValues(_)
SortValues(s) ==
    IF s = <<>> THEN <<>>
    ELSE InsertByTime(s[Len(s)], SortValues(SubSeq(s, 1, Len(s) - 1)))

\* Lines 27-29 / 97-99: the aggregated, sorted series.
TimeSeries(rows) == SortValues(GroupBySum(rows))

(***************************************************************************)
(* The regression models (scikit-learn), by what they compute.             *)
(***************************************************************************)
XOf(ts) == [i \in DOMAIN ts |-> ts[i][time_col]]
YOf(ts) == [i \in DOMAIN ts |-> ts[i][target_col]]

\* Variant: a constant model, the mean of y with slope 0.
LinearFitMeanOnly(X, y) ==
    [kind |-> "LinearRegression",
     coef_ |-> RInt(0),
     intercept_ |-> Rat(SumSeq(y), Len(X))]

\* LinearRegression().fit(X, y): ordinary least squares with an intercept.
\* With a single distinct period the centred design is zero and the
\* minimum-norm solution has slope 0.
LinearFit(X, y) ==
    LET n == Len(X)
        Sx == SumSeq(X)
        Sy == SumSeq(y)
        Sxy == SumSeq([i \in DOMAIN X |-> X[i] * y[i]])
        Sxx == SumSeq([i \in DOMAIN X |-> X[i] * X[i]])
        D == n * Sxx - Sx * Sx
        coef == IF D = 0 THEN RInt(0) ELSE Rat(n * Sxy - Sx * Sy, D)
    IN  [kind |-> "LinearRegression",
         coef_ |-> coef,
         intercept_ |-> RSub(Rat(Sy, n), RMul(coef, Rat(Sx, n)))]

\* make_pipeline(PolynomialFeatures(degree), LinearRegression()).fit(X, y):
\* the fitted pipeline is an opaque handle, determined by degree and data.
PolynomialFit(X, y, degree) ==
    [kind |-> "Pipeline", degree |-> degree, X |-> X, y |-> y]

\* The model's mapping period -> predicted value.
PredictOne(model, p) ==
    IF model.kind = "LinearRegression"
    THEN RAdd(RMul(model.coef_, RInt(p)), model.intercept_)
    ELSE [pipeline |-> model, at |-> p]

\* model.predict(X): scikit-learn validates its input and raises ValueError
\* ("Found array with 0 sample(s) ... while a minimum of 1 is required")
\* on an array with no rows.
Predict(model, X) ==
    IF Len(X) = 0
    THEN [raised |-> TRUE]
    ELSE [raised |-> FALSE, values |-> [i \in DOMAIN X |-> PredictOne(model, X[i])]]

RECURSIVE RSum(_)
RSum(s) == IF s = <<>> THEN RInt(0) ELSE RAdd(Head(s), RSum(Tail(s)))

SquaredErrors(y, y_pred) ==
    [i \in DOMAIN y |->
        LET e == RSub(RInt(y[i]), y_pred[i]) IN RMul(e, e)]

\* mean_squared_error(y, y_pred); symbolic for a pipeline's predictions.
MeanSquaredError(model, y, y_pred) ==
    IF model.kind = "LinearRegression"
    THEN RDiv(RSum(SquaredErrors(y, y_pred)), RInt(Len(y)))
    ELSE [metric |-> "mse", of |-> model]

\* r2_score(y, y_pred) = 1 - SS_res / SS_tot; not defined (nan) below two
\* samples; with SS_tot = 0 it is 1 for a perfect prediction and 0 otherwise.
R2Score(model, y, y_pred) ==
    IF model.kind = "LinearRegression"
    THEN LET n == Len(y)
             ybar == Rat(SumSeq(y), n)
             ss_res == RSum(SquaredErrors(y, y_pred))
             ss_tot == RSum([i \in DOMAIN y |->
                         LET e == RSub(RInt(y[i]), ybar) IN RMul(e, e)])
         IN  IF n < 2 THEN [nan |-> TRUE]
             ELSE IF ss_tot.num = 0
                  THEN (IF ss_res.num = 0 THEN RInt(1) ELSE RInt(0))
                  ELSE RSub(RInt(1), RDiv(ss_res, ss_tot))
    ELSE [metric |-> "r2", of |-> model]

Sqrt(v) == [sqrt |-> v]

(***************************************************************************)
(* forecast_linear and forecast_polynomial.                                *)
(***************************************************************************)
MinRows == 3
DefaultDegree == 2
RegionMinRows == 3

\* Variant: the fitted model is never handed back.
ReturnedWithoutModel(forecast_df, model_metrics, model) ==
    [outcome |-> "returned", forecast_df |-> forecast_df,
     metrics |-> model_metrics, model |-> None]

Returned(forecast_df, model_metrics, model) ==
    [outcome |-> "returned", forecast_df |-> forecast_df,
     metrics |-> model_metrics, model |-> model]

Raised(error) == [outcome |-> "raised", error |-> error]

\* Line 24 / 94: the guard of the early return.
InsufficientData(d, min_rows) ==
    \/ time_col \notin d.columns
    \/ target_col \notin d.columns
    \/ Len(d.rows) < min_rows

\* Variant: the condition is signalled by raising.
InsufficientDataRaise(message) == Raised("ValueError")

\* Line 25 / 95: the value of the early return.
InsufficientDataResult(message) ==
    Returned(EmptyDataFrame, [error |-> message], None)

Max(s) == CHOOSE x \in {s[i] : i \in DOMAIN s} :
              \A y \in {s[i] : i \in DOMAIN s} : y <= x

\* Variant: range(last_period, last_period + periods).
FuturePeriodsFromLast(last_period, periods) ==
    [i \in 1 .. periods |-> last_period + i - 1]

\* np.array(range(last_period + 1, last_period + periods + 1)).
FuturePeriods(last_period, periods) ==
    [i \in 1 .. periods |-> last_period + i]

\* Variant: the last aggregated row is left out.
HistoricalButLast(time_series) ==
    [i \in 1 .. (Len(time_series) - 1) |->
        [year |-> time_series[i][time_col],
         sales |-> RInt(time_series[i][target_col]),
         type |-> "historical"]]

Historical(time_series) ==
    [i \in DOMAIN time_series |->
        [year |-> time_series[i][time_col],
         sales |-> RInt(time_series[i][target_col]),
         type |-> "historical"]]

Future(future_periods, future_predictions) ==
    [i \in DOMAIN future_periods |->
        [year |-> future_periods[i],
         sales |-> future_predictions[i],
         type |-> "forecast"]]

\* Variant: the forecast frame is put first.
ConcatFutureFirst(historical, future) == future \o historical

\* pd.concat([historical, future], ignore_index=True)
Concat(historical, future) == historical \o future

LinearMetrics(model, mse, r2) ==
    [mse |-> mse, rmse |-> Sqrt(mse), r2 |-> r2,
     coefficient |-> model.coef_, intercept |-> model.intercept_]

\* Variant: the reported degree is the default, not the argument.
PolynomialMetricsDefaultDegree(degree, mse, r2) ==
    [mse |-> mse, rmse |-> Sqrt(mse), r2 |-> r2, degree |-> DefaultDegree]

PolynomialMetrics(degree, mse, r2) ==
    [mse |-> mse, rmse |-> Sqrt(mse), r2 |-> r2, degree |-> degree]

\* Lines 27-75 / 97-144 after the model is constructed: fit, in-sample
\* metrics, extrapolation, assembly.  The two functions differ in the model
\* and in the metrics mapping only.
FitAndForecast(time_series, model, periods, IsLinear) ==
    LET X == XOf(time_series)
        y == YOf(time_series)
        y_pred == Predict(model, X)
        last_period == Max(X)
        future_periods == FuturePeriods(last_period, periods)
        future_predictions == Predict(model, future_periods)
    IN  IF y_pred.raised \/ future_predictions.raised
        THEN Raised("ValueError")
        ELSE LET mse == MeanSquaredError(model, y, y_pred.values)
                 r2 == R2Score(model, y, y_pred.values)
                 forecast_df == Concat(Historical(time_series),
                                       Future(future_periods,
                                              future_predictions.values))
             IN  Returned(forecast_df,
                          IF IsLinear THEN LinearMetrics(model, mse, r2)
                          ELSE PolynomialMetrics(model.degree, mse, r2),
                          model)

\* data.groupby(time_col)[target_col] raises KeyError on a missing column.
GroupByRaises(d) == time_col \notin d.columns \/ target_col \notin d.columns

forecast_linear(d, periods) ==
    IF InsufficientData(d, MinRows)
    THEN InsufficientDataResult("Insufficient data for forecasting")
    ELSE IF GroupByRaises(d) THEN Raised("KeyError")
    ELSE LET time_series == TimeSeries(d.rows)
         IN  FitAndForecast(time_series,
                            LinearFit(XOf(time_series), YOf(time_series)),
                            periods, TRUE)

forecast_polynomial(d, periods, degree) ==
    IF InsufficientData(d, degree + 1)
    THEN InsufficientDataResult("Insufficient data for polynomial forecasting")
    ELSE IF GroupByRaises(d) THEN Raised("KeyError")
    ELSE LET time_series == TimeSeries(d.rows)
         IN  FitAndForecast(time_series,
                            PolynomialFit(XOf(time_series), YOf(time_series), degree),
                            periods, FALSE)

(***************************************************************************)
(* forecast_by_region.                                                     *)
(***************************************************************************)
\* Variant: the distinct values, the latest to appear first.
RECURSIVE UniqueLatestFirst(_)
UniqueLatestFirst(s) ==
    IF s = <<>> THEN <<>>
    ELSE LET init == UniqueLatestFirst(SubSeq(s, 1, Len(s) - 1))
             last == s[Len(s)]
         IN  IF \E i \in DOMAIN init : init[i] = last
             THEN init ELSE <<last>> \o init

\* data[region_col].unique(): the distinct values in order of first appearance.
RECURSIVE Unique(_)
Unique(s) ==
    IF s = <<>> THEN <<>>
    ELSE LET init == Unique(SubSeq(s, 1, Len(s) - 1))
             last == s[Len(s)]
         IN  IF \E i \in DOMAIN init : init[i] = last
             THEN init ELSE Append(init, last)

RegionColumn(d) == [i \in DOMAIN d.rows |-> d.rows[i][region_col]]

\* Variant: the dataset is passed on unfiltered.
RegionDataUnfiltered(d, region) ==
    [columns |-> d.columns, rows |-> d.rows]

\* data[data[region_col] == region]
RegionData(d, region) ==
    [columns |-> d.columns,
     rows |-> SelectSeq(d.rows, LAMBDA r : r[region_col] = region)]

\* Variant: the frame is appended without the region column.
TagRegionOmitted(forecast_df, region) == forecast_df

\* forecast_df[region_col] = region
TagRegion(forecast_df, region) ==
    [i \in DOMAIN forecast_df |->
        [year |-> forecast_df[i].year, sales |-> forecast_df[i].sales,
         type |-> forecast_df[i].type, region |-> region]]

\* Variant: the method is compared without regard to case.
RegionForecastIgnoringCase(region_data, periods, method) ==
    IF method \in {"polynomial", "Polynomial"}
    THEN forecast_polynomial(region_data, periods, DefaultDegree)
    ELSE forecast_linear(region_data, periods)

\* Lines 173-176: the method dispatch; the polynomial call passes no degree.
RegionForecast(region_data, periods, method) ==
    IF method = "polynomial"
    THEN forecast_polynomial(region_data, periods, DefaultDegree)
    ELSE forecast_linear(region_data, periods)

\* Lines 167-180: the loop over the regions; an exception raised by a
\* region's forecast leaves the loop and the function.
RECURSIVE RegionLoop(_, _, _, _, _)
RegionLoop(d, regions, all_forecasts, periods, method) ==
    IF regions = <<>>
    THEN [outcome |-> "returned", all_forecasts |-> all_forecasts]
    ELSE LET region == Head(regions)
             region_data == RegionData(d, region)
         IN  IF Len(region_data.rows) < RegionMinRows
             THEN RegionLoop(d, Tail(regions), all_forecasts, periods, method)
             ELSE LET r == RegionForecast(region_data, periods, method)
                  IN  IF r.outcome = "raised" THEN r
                      ELSE IF r.forecast_df # EmptyDataFrame
                      THEN RegionLoop(d, Tail(regions),
                               Append(all_forecasts,
                                      TagRegion(r.forecast_df, region)),
                               periods, method)
                      ELSE RegionLoop(d, Tail(regions), all_forecasts,
                                      periods, method)

\* pd.concat(all_forecasts, ignore_index=True)
RECURSIVE ConcatAll(_)
ConcatAll(frames) ==
    IF frames = <<>> THEN <<>> ELSE Head(frames) \o ConcatAll(Tail(frames))

\* Variant: the region column is not checked.
MissingBatchColumnNoRegion(d) ==
    \/ time_col \notin d.columns
    \/ target_col \notin d.columns

MissingBatchColumn(d) ==
    \/ region_col \notin d.columns
    \/ time_col \notin d.columns
    \/ target_col \notin d.columns

\* Variant: the frames are concatenated without testing the list, and
\* pd.concat raises on an empty list.
forecast_by_region_concat_always(d, periods, method) ==
    IF MissingBatchColumn(d)
    THEN [outcome |-> "returned", forecast_df |-> EmptyDataFrame]
    ELSE LET loop == RegionLoop(d, Unique(RegionColumn(d)), <<>>, periods, method)
         IN  IF loop.outcome = "raised" THEN loop
             ELSE IF loop.all_forecasts # <<>>
             THEN [outcome |-> "returned",
                   forecast_df |-> ConcatAll(loop.all_forecasts)]
             ELSE Raised("ValueError")

forecast_by_region(d, periods, method) ==
    IF MissingBatchColumn(d)
    THEN [outcome |-> "returned", forecast_df |-> EmptyDataFrame]
    ELSE IF region_col \notin d.columns THEN Raised("KeyError")
    ELSE LET loop == RegionLoop(d, Unique(RegionColumn(d)), <<>>, periods, method)
         IN  IF loop.outcome = "raised" THEN loop
             ELSE IF loop.all_forecasts # <<>>
             THEN [outcome |-> "returned",
                   forecast_df |-> ConcatAll(loop.all_forecasts)]
             ELSE [outcome |-> "returned", forecast_df |-> EmptyDataFrame]

(***************************************************************************)
(* The state machine: a dataset, and one call of one of the functions.     *)
(***************************************************************************)
RECURSIVE SeqsUpTo(_, _)
SeqsUpTo(S, n) ==
    IF n = 0 THEN {<<>>}
    ELSE LET shorter == SeqsUpTo(S, n - 1)
         IN  shorter \cup {Append(s, x) : s \in {t \in shorter : Len(t) = n - 1}, x \in S}

RowsOver(columns, regions, years, sales) ==
    IF columns = {region_col, time_col, target_col}
    THEN [region : regions, year : years, sales : sales]
    ELSE IF columns = {time_col, target_col} THEN [year : years, sales : sales]
    ELSE IF columns = {region_col, time_col} THEN [region : regions, year : years]
    ELSE IF columns = {region_col, target_col} THEN [region : regions, sales : sales]
    ELSE IF columns = {time_col} THEN [year : years]
    ELSE [sales : sales]

DataFrames(columnSets, regions, years, sales, maxRows) ==
    UNION {{[columns |-> c, rows |-> r] :
               r \in SeqsUpTo(RowsOver(c, regions, years, sales), maxRows)} :
           c \in columnSets}

\* Single-series datasets: a year and a sales column, or one of them missing.
SeriesDataFrames ==
    DataFrames({{time_col, target_col}, {time_col}, {target_col}},
               Regions, Years, Sales, MaxRows)

\* Multi-region datasets: the three columns, or one of them missing.
BatchDataFrames ==
    DataFrames({{region_col, time_col, target_col}, {time_col, target_col},
                {region_col, time_col}, {region_col, target_col}},
               Regions, BatchYears, BatchSales, MaxBatchRows)

NoCall == [fn |-> "none"]
NoResult == [outcome |-> "none"]
NoPage == [name |-> "none"]

\* The ev_data table with no row, and st.session_state as app.py, lines
\* 22-26, initialises it.
EmptyTable == <<>>
InitialSessionState ==
    [data |-> None, cleaned_data |-> None, regions |-> None, years |-> None]

Init ==
    /\ data \in SeriesDataFrames
    /\ call = NoCall
    /\ result = NoResult
    /\ page = NoPage
    /\ db = EmptyTable
    /\ session_state = InitialSessionState

InitBatch ==
    /\ data \in BatchDataFrames
    /\ call = NoCall
    /\ result = NoResult
    /\ page = NoPage
    /\ db = EmptyTable
    /\ session_state = InitialSessionState

ForecastLinear ==
    /\ call = NoCall
    /\ \E periods \in Periods :
          /\ call' = [fn |-> "forecast_linear", periods |-> periods]
          /\ result' = forecast_linear(data, periods)
    /\ UNCHANGED <<data, page, db, session_state>>

ForecastPolynomial ==
    /\ call = NoCall
    /\ \E periods \in Periods, degree \in Degrees :
          /\ call' = [fn |-> "forecast_polynomial", periods |-> periods,
                      degree |-> degree]
          /\ result' = forecast_polynomial(data, periods, degree)
    /\ UNCHANGED <<data, page, db, session_state>>

\* Variant: the region tag is written into the caller's frame instead of
\* the forecast frame.
ForecastByRegionTagsInput ==
    /\ call = NoCall
    /\ \E periods \in Periods, method \in Methods :
          /\ call' = [fn |-> "forecast_by_region", periods |-> periods,
                      method |-> method]
          /\ result' = forecast_by_region(data, periods, method)
    /\ data' = IF MissingBatchColumn(data) \/ data.rows = <<>> THEN data
               ELSE [columns |-> data.columns,
                     rows |-> [i \in DOMAIN data.rows |->
                                 [year |-> data.rows[i].year,
                                  sales |-> data.rows[i].sales,
                                  region |-> data.rows[Len(data.rows)].region]]]
    /\ UNCHANGED <<page, db, session_state>>

ForecastByRegion ==
    /\ call = NoCall
    /\ \E periods \in Periods, method \in Methods :
          /\ call' = [fn |-> "forecast_by_region", periods |-> periods,
                      method |-> method]
          /\ result' = forecast_by_region(data, periods, method)
    /\ UNCHANGED <<data, page, db, session_state>>

Next == ForecastLinear \/ ForecastPolynomial

NextBatch == ForecastByRegion \/ ForecastLinear \/ ForecastPolynomial

Spec == Init /\ [][Next]_vars

SpecBatch == InitBatch /\ [][NextBatch]_vars

\* forecast_linear on series over calendar years with sales in the hundreds.
LineDataFrames ==
    DataFrames({{time_col, target_col}}, Regions, LineYears, LineSales,
               MaxLineRows)

InitLine ==
    /\ data \in LineDataFrames
    /\ call = NoCall
    /\ result = NoResult
    /\ page = NoPage
    /\ db = EmptyTable
    /\ session_state = InitialSessionState

NextLine == ForecastLinear

SpecLine == InitLine /\ [][NextLine]_vars

(***************************************************************************)
(* The pages: one rerun of pages/forecasting.py app() and of               *)
(* dashboard_pages.py forecasting_page() over the cleaned data.  A page    *)
(* record keeps what the page computed and which element it displayed.     *)
(***************************************************************************)
MaxPageRows == 4

PagePeriods == 1 .. MaxPeriods
ForecastMethods == {"Linear", "Polynomial"}
ForecastScopes == {"Global", "Regional"}
RegionOrder == <<"A", "B">>

\* A local variable of a page is assigned once and then read: Only picks
\* the one value out of the singleton it was bound in.
Only(S) == CHOOSE x \in S : TRUE

\* str.lower() on the method strings in use.
Lower(s) ==
    IF s \in {"Polynomial", "POLYNOMIAL", "polynomial"} THEN "polynomial"
    ELSE IF s \in {"Linear", "LINEAR", "linear"} THEN "linear"
    ELSE s

\* sorted(data['region'].unique()), restricted to a selection.
SortedRegions(S) == SelectSeq(RegionOrder, LAMBDA e : e \in S)

RegionsIn(d) == {d.rows[i][region_col] : i \in DOMAIN d.rows}

\* data[data['region'].isin(regions)]
IsIn(d, regions) ==
    [columns |-> d.columns,
     rows |-> SelectSeq(d.rows, LAMBDA r : r[region_col] \in regions)]

\* Variant: the rows are handed on without the aggregation.
GlobalDataUnaggregated(d) ==
    [columns |-> {time_col, target_col},
     rows |-> [i \in DOMAIN d.rows |->
                 [year |-> d.rows[i].year, sales |-> d.rows[i].sales]]]

\* data.groupby('year')['sales'].sum().reset_index()
GlobalData(d) ==
    [columns |-> {time_col, target_col}, rows |-> GroupBySum(d.rows)]

\* The element a page shows for a forecast frame (or an exception).
Shown(r, otherwise) ==
    IF r.outcome = "raised" THEN "exception"
    ELSE IF r.forecast_df # EmptyDataFrame THEN "chart"
    ELSE otherwise

\* pages/forecasting.py, lines 57-75: the global forecast.
AppGlobalForecast(d, forecast_periods, forecast_method, polynomial_degree) ==
    Only({IF forecast_method = "Polynomial"
          THEN forecast_polynomial(global_data, forecast_periods,
                                   polynomial_degree)
          ELSE forecast_linear(global_data, forecast_periods) :
          global_data \in {GlobalData(d)}})

\* pages/forecasting.py, lines 131-144: the regional forecasts.
AppRegionalForecasts(d, forecast_periods, forecast_method, forecast_regions) ==
    Only({forecast_by_region(region_data, forecast_periods, method) :
          region_data \in {IsIn(d, forecast_regions)},
          method \in {Lower(forecast_method)}})

\* pages/forecasting.py app(): an exception in the global section ends the
\* rerun before the regional section.
app(d, forecast_periods, forecast_method, polynomial_degree, forecast_regions) ==
    Only({IF g.outcome = "raised"
          THEN [name |-> "app", global |-> g, global_display |-> "exception",
                regional |-> NoResult, regional_display |-> "none"]
          ELSE IF forecast_regions = {}
          THEN [name |-> "app", global |-> g,
                global_display |-> Shown(g, "insufficient_data"),
                regional |-> NoResult, regional_display |-> "select_regions"]
          ELSE Only({[name |-> "app", global |-> g,
                      global_display |-> Shown(g, "insufficient_data"),
                      regional |-> r,
                      regional_display |-> Shown(r, "insufficient_data")] :
                     r \in {AppRegionalForecasts(d, forecast_periods,
                                forecast_method, forecast_regions)}}) :
          g \in {AppGlobalForecast(d, forecast_periods, forecast_method,
                                   polynomial_degree)}})

\* dashboard_pages.py, lines 406-411 / 454-459: the global series with the
\* dummy region column.
DashboardGlobalData(d) ==
    LET g == GroupBySum(d.rows)
    IN  [columns |-> {time_col, target_col, region_col},
         rows |-> [i \in DOMAIN g |->
                     [year |-> g[i].year, sales |-> g[i].sales,
                      region |-> "Global"]]]

\* dashboard_pages.py, lines 476-484: the page's own polynomial loop.
RECURSIVE PolynomialRegionLoop(_, _, _, _, _)
PolynomialRegionLoop(d, regions, regional_forecasts, periods, degree) ==
    IF regions = <<>>
    THEN [outcome |-> "returned", forecast_df |-> regional_forecasts]
    ELSE LET region == Head(regions)
             region_data == RegionData(d, region)
         IN  IF Len(region_data.rows) >= degree + 1
             THEN LET r == forecast_polynomial(region_data, periods, degree)
                  IN  IF r.outcome = "raised" THEN r
                      ELSE IF r.forecast_df # EmptyDataFrame
                      THEN PolynomialRegionLoop(d, Tail(regions),
                               regional_forecasts \o TagRegion(r.forecast_df, region),
                               periods, degree)
                      ELSE PolynomialRegionLoop(d, Tail(regions),
                               regional_forecasts, periods, degree)
             ELSE PolynomialRegionLoop(d, Tail(regions), regional_forecasts,
                                       periods, degree)

\* dashboard_pages.py, lines 403-505: the four branches on model type and
\* scope.
PageForecast(filtered_data, forecast_scope, periods, model_type, degree, selected_regions) ==
    IF model_type = "Linear"
    THEN IF forecast_scope = "Global"
         THEN Only({forecast_linear(global_data, periods) :
                    global_data \in {DashboardGlobalData(filtered_data)}})
         ELSE forecast_by_region(filtered_data, periods, "linear")
    ELSE IF forecast_scope = "Global"
         THEN Only({forecast_polynomial(global_data, periods, degree) :
                    global_data \in {DashboardGlobalData(filtered_data)}})
         ELSE PolynomialRegionLoop(filtered_data,
                  SortedRegions(selected_regions), <<>>, periods, degree)

\* dashboard_pages.py forecasting_page(), lines 396-528; the try block turns
\* every exception into an error message.
forecasting_page(d, forecast_scope, periods, model_type, degree, selected_regions) ==
    Only({[name |-> "forecasting_page", forecast |-> r,
           display |-> Shown(r, IF forecast_scope = "Global" THEN "none"
                                ELSE "insufficient_data")] :
          r \in {PageForecast(filtered_data, forecast_scope, periods,
                              model_type, degree, selected_regions) :
                 filtered_data \in
                     {IF forecast_scope = "Regional" /\ selected_regions # {}
                      THEN IsIn(d, selected_regions) ELSE d}}})

\* The cleaned data the pages read: the three columns present.
PageDataFrames ==
    DataFrames({{region_col, time_col, target_col}},
               Regions, Years, BatchSales, MaxPageRows)

InitPages ==
    /\ data \in PageDataFrames
    /\ call = NoCall
    /\ result = NoResult
    /\ page = NoPage
    /\ db = EmptyTable
    /\ session_state = InitialSessionState

ForecastingApp ==
    /\ call = NoCall
    /\ \E forecast_periods \in PagePeriods, forecast_method \in ForecastMethods,
          polynomial_degree \in Degrees, forecast_regions \in SUBSET RegionsIn(data) :
          /\ forecast_method = "Linear" => polynomial_degree = DefaultDegree
          /\ call' = [fn |-> "app", periods |-> forecast_periods,
                      forecast_method |-> forecast_method,
                      degree |-> polynomial_degree,
                      regions |-> forecast_regions]
          /\ page' = app(data, forecast_periods, forecast_method,
                         polynomial_degree, forecast_regions)
    /\ UNCHANGED <<data, result, db, session_state>>

ForecastingPage ==
    /\ call = NoCall
    /\ \E forecast_scope \in ForecastScopes, periods \in PagePeriods,
          model_type \in ForecastMethods, degree \in 1 .. MaxDegree,
          selected_regions \in SUBSET RegionsIn(data) :
          /\ model_type = "Linear" <=> degree = 1
          /\ forecast_scope = "Global" => selected_regions = RegionsIn(data)
          /\ call' = [fn |-> "forecasting_page", scope |-> forecast_scope,
                      periods |-> periods, model_type |-> model_type,
                      degree |-> degree, regions |-> selected_regions]
          /\ page' = forecasting_page(data, forecast_scope, periods, model_type,
                                      degree, selected_regions)
    /\ UNCHANGED <<data, result, db, session_state>>

NextPages == ForecastingApp \/ ForecastingPage \/ ForecastByRegion

SpecPages == InitPages /\ [][NextPages]_vars

(***************************************************************************)
(* clean_data (src/utils/data_processor.py).  A raw cell is one of         *)
(* [int |-> n], [float |-> q], [str |-> characters] and [nan |-> TRUE];    *)
(* a string is the sequence of its characters.                             *)
(***************************************************************************)
NaN == [nan |-> TRUE]
IntCell(n) == [int |-> n]
FloatCell(q) == [float |-> q]
StrCell(chars) == [str |-> chars]

IsNaN(v) == DOMAIN v = {"nan"}
IsInt(v) == DOMAIN v = {"int"}
IsFloat(v) == DOMAIN v = {"float"}
IsStr(v) == DOMAIN v = {"str"}

Whitespace == {" "}
DigitValue == ("0" :> 0) @@ ("1" :> 1) @@ ("2" :> 2) @@ ("3" :> 3)

\* The integer a string of decimal digits denotes.
RECURSIVE ParseDigits(_)
ParseDigits(chars) ==
    IF chars = <<>> THEN 0
    ELSE 10 * ParseDigits(SubSeq(chars, 1, Len(chars) - 1))
         + DigitValue[chars[Len(chars)]]

IsDigits(chars) ==
    chars # <<>> /\ \A i \in DOMAIN chars : chars[i] \in DOMAIN DigitValue

\* pd.to_numeric(..., errors='coerce') on one cell: numbers stay, a string
\* of digits becomes its number, anything else becomes NaN.
ToNumeric(v) ==
    IF IsStr(v)
    THEN IF IsDigits(v.str) THEN IntCell(ParseDigits(v.str)) ELSE NaN
    ELSE v

\* fillna(0) on one cell.
FillNa(v) == IF IsNaN(v) THEN IntCell(0) ELSE v

\* astype(int) on one numeric cell: a float is truncated toward zero.
AsTypeInt(v) ==
    IF IsFloat(v)
    THEN IntCell(IF v.float.num >= 0 THEN v.float.num \div v.float.den
             ELSE 0 - ((0 - v.float.num) \div v.float.den))
    ELSE v

RECURSIVE LStrip(_)
LStrip(chars) ==
    IF chars # <<>> /\ Head(chars) \in Whitespace
    THEN LStrip(Tail(chars)) ELSE chars

RECURSIVE RStrip(_)
RStrip(chars) ==
    IF chars # <<>> /\ chars[Len(chars)] \in Whitespace
    THEN RStrip(SubSeq(chars, 1, Len(chars) - 1)) ELSE chars

\* Series.str.strip() on one cell: a string loses its leading and trailing
\* whitespace, any other cell becomes NaN.
StrStrip(v) == IF IsStr(v) THEN StrCell(RStrip(LStrip(v.str))) ELSE NaN

\* The .str accessor exists on a column of object dtype only: a non-empty
\* column without a single string is numeric, and .str raises
\* AttributeError on it.
StrAccessorRaises(d, col) ==
    /\ d.rows # <<>>
    /\ \A i \in DOMAIN d.rows : ~IsStr(d.rows[i][col])

\* One row of cleaned_data, lines 18-30 (market_share is not modelled).
CleanRow(columns, row) ==
    [c \in columns |->
        IF c = target_col THEN FillNa(row[c])
        ELSE IF c = time_col THEN AsTypeInt(FillNa(ToNumeric(row[c])))
        ELSE StrStrip(row[c])]

clean_data(d) ==
    IF region_col \in d.columns /\ StrAccessorRaises(d, region_col)
    THEN Raised("AttributeError")
    ELSE [outcome |-> "returned",
          cleaned_data |->
              [columns |-> d.columns,
               rows |-> [i \in DOMAIN d.rows |-> CleanRow(d.columns, d.rows[i])]]]

RawYears == {IntCell(1), StrCell(<<"2">>), StrCell(<<"x">>), NaN, FloatCell(Rat(5, 2))}
RawSales == {IntCell(30), NaN, StrCell(<<"x">>)}
RawRegions == {StrCell(<<"A">>), StrCell(<<" ", "A", " ">>), NaN}

\* Raw tables: the three columns, or one of them missing.
RawColumnSets ==
    {{region_col, time_col, target_col}, {time_col, target_col},
     {region_col, time_col}, {region_col, target_col}}

RawDataFrames(c) ==
    {[columns |-> c, rows |-> r] :
        r \in SeqsUpTo({row \in [c -> RawYears \cup RawSales \cup RawRegions] :
                           /\ time_col \in c => row[time_col] \in RawYears
                           /\ target_col \in c => row[target_col] \in RawSales
                           /\ region_col \in c => row[region_col] \in RawRegions},
                       MaxRawRows)}

InitClean ==
    /\ \E c \in RawColumnSets : data \in RawDataFrames(c)
    /\ call = NoCall
    /\ result = NoResult
    /\ page = NoPage
    /\ db = EmptyTable
    /\ session_state = InitialSessionState

CleanData ==
    /\ call = NoCall
    /\ call' = [fn |-> "clean_data"]
    /\ result' = clean_data(data)
    /\ UNCHANGED <<data, page, db, session_state>>

NextClean == CleanData

SpecClean == InitClean /\ [][NextClean]_vars

(***************************************************************************)
(* The ev_data table (src/utils/database.py).  A stored record has an      *)
(* integer year, a region string and a float sales value; db is the        *)
(* sequence of the committed records.  A database error (connection lost,  *)
(* statement rejected) is an input of the operation that meets it.         *)
(***************************************************************************)
\* int(x) of Python on one cell: raises ValueError on NaN and on a string
\* that is not a number.
PyInt(v) ==
    IF IsInt(v) THEN [raised |-> FALSE, value |-> v.int]
    ELSE IF IsFloat(v) THEN [raised |-> FALSE, value |-> AsTypeInt(v).int]
    ELSE IF IsStr(v) /\ IsDigits(v.str)
    THEN [raised |-> FALSE, value |-> ParseDigits(v.str)]
    ELSE [raised |-> TRUE]

\* float(x) of Python on one cell: NaN stays NaN, a string that is not a
\* number raises ValueError.
PyFloat(v) ==
    IF IsInt(v) THEN [raised |-> FALSE, value |-> RInt(v.int)]
    ELSE IF IsFloat(v) THEN [raised |-> FALSE, value |-> v.float]
    ELSE IF IsNaN(v) THEN [raised |-> FALSE, value |-> NaN]
    ELSE IF IsDigits(v.str)
    THEN [raised |-> FALSE, value |-> RInt(ParseDigits(v.str))]
    ELSE [raised |-> TRUE]

\* Lines 60-68: EVData(year=int(row['year']), region=row['region'],
\* sales=float(row['sales']), ...); a missing column raises KeyError.
EVData(columns, row) ==
    IF ~({time_col, region_col, target_col} \subseteq columns)
    THEN [raised |-> TRUE]
    ELSE IF PyInt(row[time_col]).raised \/ PyFloat(row[target_col]).raised
    THEN [raised |-> TRUE]
    ELSE [raised |-> FALSE,
          record |-> [year |-> PyInt(row[time_col]).value,
                      region |-> row[region_col],
                      sales |-> PyFloat(row[target_col]).value]]

\* Lines 58-69: the loop that converts the rows, one record per row; the
\* first row that cannot be converted raises out of the loop.
RECURSIVE DataRecords(_, _, _)
DataRecords(columns, rows, data_records) ==
    IF rows = <<>> THEN [raised |-> FALSE, data_records |-> data_records]
    ELSE IF EVData(columns, Head(rows)).raised THEN [raised |-> TRUE]
    ELSE DataRecords(columns, Tail(rows),
                     Append(data_records, EVData(columns, Head(rows)).record))

\* Variant: each record is added and committed as soon as it is built, so
\* the records before a row that cannot be converted stay stored.
save_data_to_db_row_by_row(table, data_df, commit_fails) ==
    LET RECURSIVE Loop(_, _)
        Loop(rows, stored) ==
            IF rows = <<>> THEN [table |-> stored, returned |-> TRUE]
            ELSE IF EVData(data_df.columns, Head(rows)).raised \/ commit_fails
            THEN [table |-> stored, returned |-> FALSE]
            ELSE Loop(Tail(rows),
                      Append(stored, EVData(data_df.columns, Head(rows)).record))
    IN  Loop(data_df.rows, table)

\* save_data_to_db, lines 47-80: all records are added in one transaction;
\* an exception of the conversion or of the commit rolls it back.
save_data_to_db(table, data_df, commit_fails) ==
    LET converted == DataRecords(data_df.columns, data_df.rows, <<>>)
    IN  IF converted.raised \/ commit_fails
        THEN [table |-> table, returned |-> FALSE]
        ELSE [table |-> table \o converted.data_records, returned |-> TRUE]

\* clear_db_data, lines 210-228.
clear_db_data(table, delete_fails) ==
    IF delete_fails
    THEN [table |-> table, returned |-> FALSE]
    ELSE [table |-> EmptyTable, returned |-> TRUE]

\* db_has_data, lines 191-207: a failed count query counts as no data.
db_has_data(table, query_fails) ==
    IF query_fails THEN FALSE ELSE Len(table) > 0

\* Lines 97-120 and 160-183: the rows of a DataFrame built from records.
RecordRows(records) ==
    [i \in DOMAIN records |->
        [year |-> IntCell(records[i].year),
         region |-> records[i].region,
         sales |-> IF IsNaN(records[i].sales) THEN NaN
                   ELSE FloatCell(records[i].sales)]]

RecordsFrame(records) ==
    IF records = <<>> THEN [columns |-> {}, rows |-> <<>>]
    ELSE [columns |-> {time_col, region_col, target_col},
          rows |-> RecordRows(records)]

\* load_data_from_db, lines 83-125.
load_data_from_db(table, query_fails) ==
    IF query_fails THEN RecordsFrame(<<>>) ELSE RecordsFrame(table)

\* An optional argument that is given; an absent one is None.
Some(v) == [some |-> v]

Range(seq) == {seq[i] : i \in DOMAIN seq}

\* Variant: an empty regions list is applied as a filter and matches no
\* record.
filter_data_from_db_empty_list_applied(table, min_year, max_year, regions, query_fails) ==
    IF query_fails THEN RecordsFrame(<<>>)
    ELSE RecordsFrame(SelectSeq(table, LAMBDA record :
            /\ min_year # None => record.year >= min_year.some
            /\ max_year # None => record.year <= max_year.some
            /\ regions # None => record.region \in Range(regions.some)))

\* filter_data_from_db, lines 128-188: the stored records that pass the
\* filters given; a failed query gives an empty DataFrame.
filter_data_from_db(table, min_year, max_year, regions, query_fails) ==
    IF query_fails THEN RecordsFrame(<<>>)
    ELSE RecordsFrame(SelectSeq(table, LAMBDA record :
            /\ min_year # None => record.year >= min_year.some
            /\ max_year # None => record.year <= max_year.some
            /\ (regions # None /\ Len(regions.some) > 0) =>
                  record.region \in Range(regions.some)))

\* load_filtered_data (src/utils/data_loader.py, lines 71-83).
load_filtered_data(table, min_year, max_year, regions, query_fails) ==
    filter_data_from_db(table, min_year, max_year, regions, query_fails)

\* load_sample_data (src/utils/data_loader.py, lines 6-33); an exception of
\* init_db is printed and ignored, the result of save_data_to_db is not
\* looked at.
load_sample_data(table, sample_data, has_data_fails, query_fails, commit_fails) ==
    IF db_has_data(table, has_data_fails)
    THEN [table |-> table,
          outcome |-> "returned",
          data |-> load_data_from_db(table, query_fails)]
    ELSE [table |-> save_data_to_db(table, sample_data, commit_fails).table,
          outcome |-> "returned",
          data |-> sample_data]

\* load_data_from_csv (src/utils/data_loader.py, lines 35-60): read_csv or
\* init_db raising is re-raised as ValueError; the results of
\* clear_db_data and save_data_to_db are not looked at.
load_data_from_csv(table, csv, read_fails, delete_fails, commit_fails) ==
    IF read_fails
    THEN [table |-> table, outcome |-> "raised", exception |-> "ValueError"]
    ELSE LET cleared == clear_db_data(table, delete_fails).table
         IN  [table |-> save_data_to_db(cleared, csv, commit_fails).table,
              outcome |-> "returned",
              data |-> csv]

\* What pd.read_csv gives for the uploaded files: the three columns or the
\* year column missing, a year cell possibly empty.
CsvYears == {IntCell(1), IntCell(2), NaN}
CsvRegions == {StrCell(<<"A">>), StrCell(<<"B">>)}
CsvSales == {IntCell(30)}

CsvDataFrames ==
    UNION {{[columns |-> c, rows |-> r] :
               r \in SeqsUpTo({row \in [c -> CsvYears \cup CsvRegions \cup CsvSales] :
                                  /\ time_col \in c => row[time_col] \in CsvYears
                                  /\ target_col \in c => row[target_col] \in CsvSales
                                  /\ region_col \in c => row[region_col] \in CsvRegions},
                              MaxCsvRows)} :
           c \in {{region_col, time_col, target_col}, {region_col, target_col}}}

\* generate_sample_data (src/assets/sample_data.py): one row per region and
\* year, all cells present.
SampleDataFrames ==
    {[columns |-> {region_col, time_col, target_col},
      rows |-> <<[year |-> IntCell(1), region |-> StrCell(<<"A">>), sales |-> IntCell(30)],
                 [year |-> IntCell(1), region |-> StrCell(<<"B">>), sales |-> IntCell(30)]>>]}

FilterYears == {None, Some(1), Some(2)}
FilterRegions ==
    {None, Some(<<>>), Some(<<StrCell(<<"A">>)>>),
     Some(<<StrCell(<<"A">>), StrCell(<<"B">>)>>)}

\* The table as earlier runs left it: any records below the bound.
StoredTables ==
    SeqsUpTo([year : {1, 2}, region : CsvRegions, sales : {RInt(30)}],
             MaxStoredRows)

InitDb ==
    /\ data = RecordsFrame(<<>>)
    /\ call = NoCall
    /\ result = NoResult
    /\ page = NoPage
    /\ db \in StoredTables
    /\ session_state = InitialSessionState

SaveDataToDb ==
    /\ call = NoCall
    /\ \E data_df \in CsvDataFrames, commit_fails \in BOOLEAN :
          LET saved == save_data_to_db(db, data_df, commit_fails)
          IN  /\ Len(saved.table) <= MaxStoredRows
              /\ call' = [fn |-> "save_data_to_db", data_df |-> data_df,
                          commit_fails |-> commit_fails]
              /\ result' = [outcome |-> "returned", value |-> saved.returned]
              /\ db' = saved.table
    /\ UNCHANGED <<data, page, session_state>>

LoadDataFromCsv ==
    /\ call = NoCall
    /\ \E csv \in CsvDataFrames, read_fails, delete_fails, commit_fails \in BOOLEAN :
          LET loaded == load_data_from_csv(db, csv, read_fails, delete_fails,
                                           commit_fails)
          IN  /\ Len(loaded.table) <= MaxStoredRows
              /\ call' = [fn |-> "load_data_from_csv", csv |-> csv,
                          db_error |-> read_fails \/ delete_fails \/ commit_fails]
              /\ result' = IF loaded.outcome = "raised"
                           THEN Raised(loaded.exception)
                           ELSE [outcome |-> "returned", data |-> loaded.data]
              /\ db' = loaded.table
    /\ UNCHANGED <<data, page, session_state>>

LoadSampleData ==
    /\ call.fn \in {"none", "load_sample_data"}
    /\ \E sample_data \in SampleDataFrames,
          has_data_fails, query_fails, commit_fails \in BOOLEAN :
          LET loaded == load_sample_data(db, sample_data, has_data_fails,
                                         query_fails, commit_fails)
          IN  /\ Len(loaded.table) <= MaxStoredRows
              /\ call' = [fn |-> "load_sample_data",
                          db_error |-> has_data_fails \/ query_fails \/ commit_fails]
              /\ result' = [outcome |-> "returned", data |-> loaded.data]
              /\ db' = loaded.table
    /\ UNCHANGED <<data, page, session_state>>

FilterDataFromDb ==
    /\ call = NoCall
    /\ \E min_year, max_year \in FilterYears, regions \in FilterRegions,
          query_fails \in BOOLEAN :
          /\ call' = [fn |-> "filter_data_from_db", min_year |-> min_year,
                      max_year |-> max_year, regions |-> regions,
                      query_fails |-> query_fails]
          /\ result' = [outcome |-> "returned",
                        data |-> load_filtered_data(db, min_year, max_year,
                                                    regions, query_fails)]
    /\ UNCHANGED <<data, page, db, session_state>>

NextDb == SaveDataToDb \/ LoadDataFromCsv \/ LoadSampleData \/ FilterDataFromDb

SpecDb == InitDb /\ [][NextDb]_vars

(***************************************************************************)
(* calculate_growth_rates (src/utils/data_processor.py).  The result is    *)
(* the sequence of its records; a rate is a rational, or NaN.              *)
(***************************************************************************)
\* Line 48: groupby(['region', 'year'])['sales'].sum().reset_index(), the
\* keys ascending by region, then year.
RECURSIVE YearlySalesOf(_, _)
YearlySalesOf(d, regions) ==
    IF regions = <<>> THEN <<>>
    ELSE LET sums == GroupBySum(RegionData(d, Head(regions)).rows)
         IN  [i \in DOMAIN sums |->
                 [region |-> Head(regions), year |-> sums[i].year,
                  sales |-> sums[i].sales]]
             \o YearlySalesOf(d, Tail(regions))

YearlySales(d) == YearlySalesOf(d, SortedRegions(RegionsIn(d)))

\* Variant: the rate is left a fraction, not multiplied by 100.
GrowthRateFraction(prev_sales, curr_sales) ==
    IF prev_sales > 0
    THEN Rat(curr_sales - prev_sales, prev_sales)
    ELSE NaN

\* Lines 66-69.
GrowthRate(prev_sales, curr_sales) ==
    IF prev_sales > 0
    THEN Rat((curr_sales - prev_sales) * 100, prev_sales)
    ELSE NaN

\* Lines 60-75: one record per pair of adjacent rows of the region.
RegionGrowthRates(region, region_data) ==
    [i \in 1 .. (Len(region_data) - 1) |->
        [region |-> region,
         year |-> region_data[i + 1].year,
         growth_rate |-> GrowthRate(region_data[i].sales,
                                    region_data[i + 1].sales)]]

\* Lines 53-75: the loop over the regions of yearly_sales.
RECURSIVE GrowthLoop(_, _, _)
GrowthLoop(yearly_sales, regions, growth_rates) ==
    IF regions = <<>> THEN growth_rates
    ELSE LET region == Head(regions)
             region_data ==
                 SortValues(SelectSeq(yearly_sales,
                                      LAMBDA r : r.region = region))
         IN  IF Len(region_data) <= 1
             THEN GrowthLoop(yearly_sales, Tail(regions), growth_rates)
             ELSE GrowthLoop(yearly_sales, Tail(regions),
                      growth_rates \o RegionGrowthRates(region, region_data))

calculate_growth_rates(d) ==
    IF \/ time_col \notin d.columns
       \/ region_col \notin d.columns
       \/ target_col \notin d.columns
    THEN EmptyDataFrame
    ELSE Only({GrowthLoop(yearly_sales,
                          Unique([i \in DOMAIN yearly_sales |->
                                     yearly_sales[i].region]),
                          <<>>) :
               yearly_sales \in {YearlySales(d)}})

GrowthSales == {0, 30, 70}

\* Tables with the three columns, or the region or the year column missing.
GrowthColumnSets ==
    {{region_col, time_col, target_col}, {time_col, target_col},
     {region_col, target_col}}

GrowthDataFrames(c) ==
    {[columns |-> c, rows |-> r] :
        r \in SeqsUpTo(RowsOver(c, Regions, Years, GrowthSales), MaxGrowthRows)}

InitGrowth ==
    /\ \E c \in GrowthColumnSets : data \in GrowthDataFrames(c)
    /\ call = NoCall
    /\ result = NoResult
    /\ page = NoPage
    /\ db = EmptyTable
    /\ session_state = InitialSessionState

CalculateGrowthRates ==
    /\ call = NoCall
    /\ call' = [fn |-> "calculate_growth_rates"]
    /\ result' = [outcome |-> "returned",
                  growth_rates |-> calculate_growth_rates(data)]
    /\ UNCHANGED <<data, page, db, session_state>>

NextGrowth == CalculateGrowthRates

SpecGrowth == InitGrowth /\ [][NextGrowth]_vars

(***************************************************************************)
(* The script of src/app.py, run from top to bottom on every rerun of a    *)
(* browser session.  session_state lives as long as the session, the       *)
(* ev_data table as long as the database.                                  *)
(***************************************************************************)
\* get_db_metadata (src/utils/database.py, lines 231-248) behind
\* get_data_metadata: the distinct regions and the distinct years in
\* ascending order; a failed query gives two empty lists.
get_data_metadata(table, query_fails) ==
    IF query_fails THEN [regions |-> <<>>, years |-> <<>>]
    ELSE [regions |-> Unique([i \in DOMAIN table |-> table[i].region]),
          years |-> SortedSeq({table[i].year : i \in DOMAIN table})]

\* What a rerun leaves behind: session_state, the table, and whether a load
\* was attempted and how it ended.
LoadSkipped(state, table) ==
    [session_state |-> state, table |-> table, load |-> "none"]

LoadSucceeded(state, table) ==
    [session_state |-> state, table |-> table, load |-> "succeeded"]

\* Variant: the handler resets data and leaves cleaned_data.
LoadFailedDataReset(state, table) ==
    [session_state |-> [state EXCEPT !.data = None],
     table |-> table, load |-> "failed"]

\* The except handlers, lines 115-127 and 191-196.
LoadFailed(state, table) ==
    [session_state |-> [state EXCEPT !.data = None, !.cleaned_data = None],
     table |-> table, load |-> "failed"]

\* Lines 86-101 of the upload branch, after load_data_from_csv has returned
\* and line 81 has stored its table: cleaning, metadata, and the summary
\* whose min(years) raises ValueError on an empty list.
UploadAfterLoad(state, table, metadata_fails) ==
    LET cleaned == clean_data(state.data)
        metadata == get_data_metadata(table, metadata_fails)
    IN  IF cleaned.outcome = "raised" THEN LoadFailed(state, table)
        ELSE LET described ==
                     [state EXCEPT !.cleaned_data = cleaned.cleaned_data,
                                   !.regions = metadata.regions,
                                   !.years = metadata.years]
             IN  IF metadata.years = <<>>
                 THEN LoadFailed(described, table)
                 ELSE LoadSucceeded(described, table)

\* Lines 48-132: the branch of "Upload your own CSV".  The preview read of
\* line 71 reads the file load_data_from_csv reads, and raises when that
\* read raises.
UploadBranch(state, table, uploaded_file, read_fails, delete_fails, commit_fails, metadata_fails) ==
    IF uploaded_file = None THEN LoadSkipped(state, table)
    ELSE IF read_fails THEN LoadFailed(state, table)
    ELSE LET loaded == load_data_from_csv(table, uploaded_file, read_fails,
                                          delete_fails, commit_fails)
         IN  IF loaded.outcome = "raised"
             THEN LoadFailed(state, loaded.table)
             ELSE UploadAfterLoad([state EXCEPT !.data = loaded.data],
                                  loaded.table, metadata_fails)

\* Lines 166-169: the fallback to the regions and years of cleaned_data; a
\* column that is not there raises KeyError.
MetadataFallback(cleaned_data) ==
    IF ~({region_col, time_col} \subseteq cleaned_data.columns)
    THEN [raised |-> TRUE]
    ELSE [raised |-> FALSE,
          regions |-> Unique(RegionColumn(cleaned_data)),
          years |-> SortedSeq({cleaned_data.rows[i][time_col].int :
                                  i \in DOMAIN cleaned_data.rows})]

\* Lines 159-176 of the sample branch, after line 154 has stored the table
\* load_sample_data returned.
SampleAfterLoad(state, table, metadata_fails) ==
    LET cleaned == clean_data(state.data)
        metadata == get_data_metadata(table, metadata_fails)
    IN  IF cleaned.outcome = "raised" THEN LoadFailed(state, table)
        ELSE LET described ==
                     [state EXCEPT !.cleaned_data = cleaned.cleaned_data,
                                   !.regions = metadata.regions,
                                   !.years = metadata.years]
                 fallback == MetadataFallback(cleaned.cleaned_data)
             IN  IF metadata.regions # <<>> /\ metadata.years # <<>>
                 THEN LoadSucceeded(described, table)
                 ELSE IF fallback.raised THEN LoadFailed(described, table)
                 ELSE IF fallback.years = <<>>
                 THEN LoadFailed([described EXCEPT !.regions = fallback.regions,
                                                   !.years = fallback.years],
                                 table)
                 ELSE LoadSucceeded([described EXCEPT
                                         !.regions = fallback.regions,
                                         !.years = fallback.years],
                                    table)

\* Lines 133-201: the branch of "Use sample data", which loads only while
\* session_state.data is None.
SampleBranch(state, table, sample_data, init_fails, has_data_fails, query_fails, commit_fails, metadata_fails) ==
    IF state.data # None THEN LoadSkipped(state, table)
    ELSE IF init_fails THEN LoadFailed(state, table)
    ELSE LET loaded == load_sample_data(table, sample_data, has_data_fails,
                                        query_fails, commit_fails)
         IN  SampleAfterLoad([state EXCEPT !.data = loaded.data],
                             loaded.table, metadata_fails)

\* Lines 204-286: the filters, the filtered data and the page are shown
\* only when cleaned_data is there, the hint to load data otherwise; the
\* section assigns nothing to session_state and writes nothing to the
\* table.
MainSection(state) ==
    IF state.cleaned_data = None
    THEN [name |-> "main", section |-> "info"]
    ELSE [name |-> "main", section |-> "filters"]

UploadRow(year, region) ==
    [year |-> year, region |-> region, sales |-> IntCell(30)]

\* The files the uploader can hold: rows that all convert, a file whose
\* second row has no year, a file without rows, one without the year
\* column, and one whose region column is numeric.
UploadedFiles ==
    {[columns |-> {region_col, time_col, target_col}, rows |-> r] :
        r \in {<<UploadRow(IntCell(1), StrCell(<<"A">>))>>,
               <<UploadRow(IntCell(1), StrCell(<<"A">>)),
                 UploadRow(IntCell(2), StrCell(<<"B">>))>>,
               <<UploadRow(IntCell(2), StrCell(<<"B">>)),
                 UploadRow(NaN, StrCell(<<"A">>))>>,
               <<>>,
               <<UploadRow(IntCell(1), IntCell(1))>>}}
    \cup {[columns |-> {region_col, target_col},
           rows |-> <<[region |-> StrCell(<<"A">>), sales |-> IntCell(30)]>>]}

InitSession ==
    /\ data = RecordsFrame(<<>>)
    /\ call = NoCall
    /\ result = NoResult
    /\ page = NoPage
    /\ db = EmptyTable
    /\ session_state = InitialSessionState

\* A rerun with "Upload your own CSV" selected.
RerunUpload ==
    \E uploaded_file \in UploadedFiles \cup {None},
       read_fails, delete_fails, commit_fails, metadata_fails \in BOOLEAN :
        LET rerun == UploadBranch(session_state, db, uploaded_file, read_fails,
                                  delete_fails, commit_fails, metadata_fails)
        IN  /\ Len(rerun.table) <= MaxStoredRows
            /\ call' = [fn |-> "app.py", data_source |-> "Upload your own CSV",
                        uploaded |-> uploaded_file # None]
            /\ result' = [outcome |-> "returned", load |-> rerun.load]
            /\ session_state' = rerun.session_state
            /\ db' = rerun.table
            /\ page' = MainSection(rerun.session_state)
            /\ UNCHANGED data

\* A rerun with "Use sample data" selected.
RerunSample ==
    \E sample_data \in SampleDataFrames,
       init_fails, has_data_fails, query_fails, commit_fails,
       metadata_fails \in BOOLEAN :
        LET rerun == SampleBranch(session_state, db, sample_data, init_fails,
                                  has_data_fails, query_fails, commit_fails,
                                  metadata_fails)
        IN  /\ Len(rerun.table) <= MaxStoredRows
            /\ call' = [fn |-> "app.py", data_source |-> "Use sample data",
                        uploaded |-> FALSE]
            /\ result' = [outcome |-> "returned", load |-> rerun.load]
            /\ session_state' = rerun.session_state
            /\ db' = rerun.table
            /\ page' = MainSection(rerun.session_state)
            /\ UNCHANGED data

\* A new browser session: lines 21-26 find no 'data' key and initialise the
\* four entries; the database is what the earlier sessions left.
NewSession ==
    /\ call' = [fn |-> "new_session"]
    /\ result' = NoResult
    /\ page' = NoPage
    /\ session_state' = InitialSessionState
    /\ UNCHANGED <<data, db>>

NextSession == RerunUpload \/ RerunSample \/ NewSession

SpecSession == InitSession /\ [][NextSession]_vars

(***************************************************************************)
(* Properties.                                                             *)
(***************************************************************************)
SingleCall == call.fn \in {"forecast_linear", "forecast_polynomial"}

BatchCall == call.fn = "forecast_by_region"

HasTimeAndTarget == {time_col, target_col} \subseteq data.columns

HasBatchColumns == {region_col, time_col, target_col} \subseteq data.columns

\* The number of points the fit of the call needs: 3, or degree + 1.
RequiredPoints == IF call.fn = "forecast_linear" THEN 3 ELSE call.degree + 1

InputPeriods == {data.rows[i].year : i \in DOMAIN data.rows}

DistinctPeriods == Cardinality(InputPeriods)

MaxInputPeriod == CHOOSE x \in InputPeriods : \A y \in InputPeriods : y <= x

RECURSIVE PeriodTotal(_, _)
PeriodTotal(rows, p) ==
    IF rows = <<>> THEN 0
    ELSE (IF Head(rows).year = p THEN Head(rows).sales ELSE 0)
         + PeriodTotal(Tail(rows), p)

RowsOfType(df, t) == SelectSeq(df, LAMBDA row : row.type = t)

StrictlyAscending(df) ==
    \A i, j \in DOMAIN df : i < j => df[i].year < df[j].year

Succeeded(r) == r.outcome = "returned" /\ r.forecast_df # <<>>

ErrorResult(r) ==
    /\ r.outcome = "returned"
    /\ r.forecast_df = <<>>
    /\ DOMAIN r.metrics = {"error"}
    /\ r.model = None

\* C1: forecast_linear on a dataset with the time and target columns returns
\* the empty, error-tagged result when the dataset has fewer than 3 distinct
\* periods and a non-empty forecast when it has 3 or more (stated for a
\* positive horizon).
C1_LinearGatesOnDistinctPeriods ==
    (call.fn = "forecast_linear" /\ HasTimeAndTarget /\ call.periods >= 1) =>
        IF DistinctPeriods < 3
        THEN result.outcome = "returned" /\ result.forecast_df = <<>>
             /\ "error" \in DOMAIN result.metrics
        ELSE Succeeded(result)

\* C2: forecast_polynomial of degree D fails (empty sequence, error metrics,
\* null model) with D or fewer distinct periods and succeeds with D + 1 or
\* more (stated for a positive horizon).
C2_PolynomialGatesOnDistinctPeriods ==
    (call.fn = "forecast_polynomial" /\ HasTimeAndTarget /\ call.periods >= 1) =>
        IF DistinctPeriods <= call.degree
        THEN ErrorResult(result)
        ELSE Succeeded(result)

\* C3: a successful single-series forecast with periods = N >= 1 has exactly
\* N rows tagged forecast, the i-th of period max(input period) + i.
C3_HorizonContiguity ==
    (SingleCall /\ Succeeded(result) /\ call.periods >= 1) =>
        LET f == RowsOfType(result.forecast_df, "forecast")
        IN  /\ Len(f) = call.periods
            /\ \A i \in DOMAIN f : f[i].year = MaxInputPeriod + i
            /\ StrictlyAscending(f)

C3_Witness ==
    /\ call.fn = "forecast_linear"
    /\ call.periods = 2
    /\ Succeeded(result)
    /\ Len(RowsOfType(result.forecast_df, "forecast")) = 2

\* C4: with periods <= 0 and sufficient history (rows and distinct periods)
\* the call returns, with no forecast row and the historical rows as usual.
C4_NonPositiveHorizonReturnsHistory ==
    (/\ SingleCall /\ HasTimeAndTarget /\ call.periods <= 0
     /\ Len(data.rows) >= RequiredPoints
     /\ DistinctPeriods >= RequiredPoints) =>
        /\ result.outcome = "returned"
        /\ RowsOfType(result.forecast_df, "forecast") = <<>>
        /\ RowsOfType(result.forecast_df, "historical")
              = Historical(TimeSeries(data.rows))

\* C5: a single-series call on a dataset with fewer rows than the fit needs
\* returns (empty sequence, metrics with the one key error, null model) and
\* does not raise; every error-tagged result has that shape.
C5_InsufficientDataResultShape ==
    SingleCall =>
        /\ Len(data.rows) < RequiredPoints => ErrorResult(result)
        /\ (result.outcome = "returned" /\ "error" \in DOMAIN result.metrics)
              => ErrorResult(result)

C5_Witness ==
    /\ call.fn = "forecast_polynomial"
    /\ HasTimeAndTarget
    /\ Len(data.rows) = call.degree
    /\ call.periods = 0
    /\ ErrorResult(result)

\* C6: with the time or target column missing forecast_linear and
\* forecast_polynomial return the error result, and with the region, time or
\* target column missing forecast_by_region returns an empty sequence; none
\* raises, whatever the number of rows.
C6_MissingColumnHandling ==
    /\ (SingleCall /\ ~HasTimeAndTarget) => ErrorResult(result)
    /\ (BatchCall /\ ~HasBatchColumns) =>
          result.outcome = "returned" /\ result.forecast_df = <<>>

C6_Witness ==
    /\ BatchCall
    /\ region_col \notin data.columns
    /\ Len(data.rows) >= RegionMinRows
    /\ result.outcome = "returned"
    /\ result.forecast_df = <<>>

\* C7: in a successful single-series result the rows tagged historical are
\* one row per distinct input period, in ascending order, each carrying the
\* sum of the target over the input rows of that period.
C7_HistoricalPassthrough ==
    (SingleCall /\ Succeeded(result)) =>
        LET h == RowsOfType(result.forecast_df, "historical")
        IN  /\ Len(h) = DistinctPeriods
            /\ StrictlyAscending(h)
            /\ \A i \in DOMAIN h :
                  /\ h[i].year \in InputPeriods
                  /\ h[i].sales = RInt(PeriodTotal(data.rows, h[i].year))

C7_Witness ==
    /\ call.fn = "forecast_polynomial"
    /\ Succeeded(result)
    /\ DistinctPeriods < Len(data.rows)
    /\ \E i \in DOMAIN result.forecast_df :
          /\ result.forecast_df[i].type = "historical"
          /\ result.forecast_df[i].sales = RInt(100)

\* C8: the aggregated series of a call that passed the guard has one row per
\* distinct input period, its value the sum of the target over the rows of
\* that period, in strictly ascending period order.
C8_Aggregation ==
    (SingleCall /\ ~InsufficientData(data, RequiredPoints)) =>
        LET time_series == TimeSeries(data.rows)
        IN  /\ Len(time_series) = DistinctPeriods
            /\ {time_series[i].year : i \in DOMAIN time_series} = InputPeriods
            /\ \A i \in DOMAIN time_series :
                  time_series[i].sales
                     = PeriodTotal(data.rows, time_series[i].year)
            /\ StrictlyAscending(time_series)

C8_Witness ==
    /\ SingleCall
    /\ ~InsufficientData(data, RequiredPoints)
    /\ \E i, j \in DOMAIN data.rows :
          /\ i < j
          /\ data.rows[i].year = data.rows[j].year
          /\ data.rows[i].sales = 30
          /\ data.rows[j].sales = 70
          /\ \E k \in DOMAIN TimeSeries(data.rows) :
                /\ TimeSeries(data.rows)[k].year = data.rows[i].year
                /\ TimeSeries(data.rows)[k].sales = 100
    /\ \E i, j \in DOMAIN data.rows : i < j /\ data.rows[i].year > data.rows[j].year

RegionRows(e) == SelectSeq(data.rows, LAMBDA r : r.region = e)

OutputRowsOf(e) == SelectSeq(result.forecast_df, LAMBDA r : r.region = e)

\* C9: in forecast_by_region every entity with fewer than 3 rows contributes
\* no row and does not abort the call, and every entity with 3 or more rows
\* contributes its rows.
C9_BatchSkip ==
    (/\ BatchCall /\ HasBatchColumns
     /\ \E e \in Regions : Len(RegionRows(e)) \in 1 .. 2) =>
        /\ result.outcome = "returned"
        /\ \A e \in Regions :
              IF Len(RegionRows(e)) < 3
              THEN OutputRowsOf(e) = <<>>
              ELSE OutputRowsOf(e) # <<>>

\* C10: when the single-series pipeline fails for one entity of a batch whose
\* entities all have 3 or more rows, the batch still returns, with the
\* complete rows of every other forecastable entity and no row of the failed
\* one.
C10_FailureIsolation ==
    (/\ BatchCall /\ HasBatchColumns
     /\ \A e \in Regions : Len(RegionRows(e)) >= RegionMinRows
     /\ \E e \in Regions :
           ~Succeeded(RegionForecast(RegionData(data, e),
                                     call.periods, call.method))) =>
        /\ result.outcome = "returned"
        /\ \A e \in Regions :
              LET r == RegionForecast(RegionData(data, e),
                                      call.periods, call.method)
              IN  OutputRowsOf(e) =
                     IF Len(RegionRows(e)) >= RegionMinRows /\ Succeeded(r)
                     THEN TagRegion(r.forecast_df, e)
                     ELSE <<>>

\* The rows of entity e alone, as a single-series dataset.
Alone(e) ==
    [columns |-> {time_col, target_col},
     rows |-> [i \in DOMAIN RegionRows(e) |->
                 [year |-> RegionRows(e)[i].year,
                  sales |-> RegionRows(e)[i].sales]]]

\* The single-series forecast of entity e's rows alone, by the function the
\* batch call's method argument selects.
SingleSeries(e) ==
    IF call.method = "polynomial"
    THEN forecast_polynomial(Alone(e), call.periods, DefaultDegree)
    ELSE forecast_linear(Alone(e), call.periods)

Untagged(rows) ==
    [i \in DOMAIN rows |->
        [year |-> rows[i].year, sales |-> rows[i].sales, type |-> rows[i].type]]

\* No region among S has the 3 rows the batch asks for.
AllSkipped(S) == \A e \in S : Len(RegionRows(e)) < 3

\* No entity of the dataset produced a forecast: each was skipped, or its
\* single-series forecast came back empty.
NoEntityForecast ==
    \A e \in RegionsIn(data) :
        \/ Len(RegionRows(e)) < 3
        \/ ~Succeeded(SingleSeries(e))

C12_BatchIndependence ==
    (BatchCall /\ HasBatchColumns /\ result.outcome = "returned") =>
        \A e \in Regions :
            LET alone == SingleSeries(e)
            IN  Untagged(OutputRowsOf(e)) =
                    IF Len(RegionRows(e)) >= 3 /\ Succeeded(alone)
                    THEN alone.forecast_df
                    ELSE <<>>

C12_Witness ==
    /\ BatchCall /\ HasBatchColumns /\ result.outcome = "returned"
    /\ call.periods = 2
    /\ \A e \in Regions :
          /\ Len(RegionRows(e)) = 3
          /\ Len(OutputRowsOf(e)) >= 3
          /\ Untagged(OutputRowsOf(e)) = SingleSeries(e).forecast_df
    /\ data.rows[1].region # data.rows[2].region
    /\ \E i, j \in DOMAIN data.rows :
          /\ data.rows[i].region # data.rows[j].region
          /\ data.rows[i].year # data.rows[j].year

\* The index of the first row of entity e in the caller's dataset.
FirstAppearance(e) ==
    CHOOSE i \in DOMAIN data.rows :
        /\ data.rows[i].region = e
        /\ \A k \in 1 .. (i - 1) : data.rows[k].region # e

\* C13: the output of a forecast_by_region call is one block of rows per
\* entity, the blocks in the order in which the entities first appear in
\* the dataset; inside a block the historical rows precede the forecast
\* rows and the periods ascend.
C13_BatchOutputOrder ==
    (BatchCall /\ HasBatchColumns /\ result.outcome = "returned") =>
        LET df == result.forecast_df
        IN  \A i, j \in DOMAIN df :
                i < j =>
                    IF df[i].region # df[j].region
                    THEN FirstAppearance(df[i].region)
                            < FirstAppearance(df[j].region)
                    ELSE /\ df[i].type = "forecast" => df[j].type = "forecast"
                         /\ df[i].year < df[j].year

C13_Witness ==
    /\ BatchCall /\ HasBatchColumns /\ result.outcome = "returned"
    /\ Len(data.rows) = 6
    /\ Len(result.forecast_df) >= 6
    /\ data.rows[1].region = "B"
    /\ data.rows[2].region = "A"
    /\ data.rows[Len(data.rows)].region = "B"
    /\ result.forecast_df[1].region = "B"
    /\ result.forecast_df[Len(result.forecast_df)].region = "A"
    /\ result.forecast_df[Len(result.forecast_df)].type = "forecast"
    /\ \E i \in 1 .. (Len(result.forecast_df) - 1) :
          /\ result.forecast_df[i].region = "B"
          /\ result.forecast_df[i].type = "forecast"
          /\ result.forecast_df[i + 1].region = "A"
          /\ result.forecast_df[i + 1].type = "historical"

\* C14: every row of a forecast_by_region output carries, besides period,
\* value and kind, the entity whose rows produced it (a historical row
\* holds that entity's total for one of its periods, a forecast row a
\* period in the horizon after that entity's last period); the rows of a
\* forecast_linear or forecast_polynomial output carry period, value and
\* kind only.
C14_EntityTagging ==
    /\ (BatchCall /\ HasBatchColumns /\ result.outcome = "returned") =>
          \A i \in DOMAIN result.forecast_df :
              LET row == result.forecast_df[i]
              IN  /\ DOMAIN row = {time_col, target_col, "type", region_col}
                  /\ row.region \in Regions
                  /\ Len(RegionRows(row.region)) >= 3
                  /\ row.type = "historical" =>
                        /\ \E k \in DOMAIN RegionRows(row.region) :
                              RegionRows(row.region)[k].year = row.year
                        /\ row.sales =
                              RInt(PeriodTotal(RegionRows(row.region), row.year))
                  /\ row.type = "forecast" =>
                        /\ \A k \in DOMAIN RegionRows(row.region) :
                              RegionRows(row.region)[k].year < row.year
                        /\ \E k \in DOMAIN RegionRows(row.region) :
                              row.year <= RegionRows(row.region)[k].year
                                              + call.periods
    /\ (SingleCall /\ result.outcome = "returned") =>
          \A i \in DOMAIN result.forecast_df :
              DOMAIN result.forecast_df[i] = {time_col, target_col, "type"}

C14_Witness ==
    /\ BatchCall /\ HasBatchColumns /\ result.outcome = "returned"
    /\ Len(RegionRows("A")) = 2
    /\ Len(RegionRows("B")) = 4
    /\ Len(result.forecast_df) = 4
    /\ \A i \in DOMAIN result.forecast_df :
          result.forecast_df[i].region = "B"
    /\ result.forecast_df[1].type = "historical"
    /\ result.forecast_df[4].type = "forecast"

\* C15: the rows of a successful forecast_linear or forecast_polynomial
\* result are tagged 'historical' or 'forecast' and nothing else, all
\* historical rows precede all forecast rows, every forecast period is
\* greater than every historical period, and the periods of the whole
\* sequence ascend strictly.
C15_AssemblyOrder ==
    (SingleCall /\ Succeeded(result)) =>
        LET df == result.forecast_df
        IN  /\ \A i \in DOMAIN df : df[i].type \in {"historical", "forecast"}
            /\ \A i, j \in DOMAIN df :
                  (i < j /\ df[i].type = "forecast") => df[j].type = "forecast"
            /\ \A i, j \in DOMAIN df :
                  (df[i].type = "historical" /\ df[j].type = "forecast") =>
                      df[i].year < df[j].year
            /\ StrictlyAscending(df)

C15_Witness ==
    /\ SingleCall /\ Succeeded(result)
    /\ data.rows[1].year > data.rows[2].year
    /\ Len(RowsOfType(result.forecast_df, "historical")) = 3
    /\ Len(RowsOfType(result.forecast_df, "forecast")) = 2
    /\ result.forecast_df[3].type = "historical"
    /\ result.forecast_df[4].type = "forecast"
    /\ result.forecast_df[4].year = result.forecast_df[3].year + 1

\* C16: the metrics of a successful forecast_linear have exactly the keys
\* mse, rmse, r2, coefficient, intercept; those of a successful
\* forecast_polynomial exactly mse, rmse, r2, degree, the degree being the
\* caller's argument; a call that returns without a forecast returns
\* metrics with the single key error.
C16_MetricsKeySet ==
    /\ (call.fn = "forecast_linear" /\ Succeeded(result)) =>
          DOMAIN result.metrics =
              {"mse", "rmse", "r2", "coefficient", "intercept"}
    /\ (call.fn = "forecast_polynomial" /\ Succeeded(result)) =>
          /\ DOMAIN result.metrics = {"mse", "rmse", "r2", "degree"}
          /\ result.metrics.degree = call.degree
    /\ (SingleCall /\ result.outcome = "returned"
                   /\ result.forecast_df = <<>>) =>
          DOMAIN result.metrics = {"error"}

C16_Witness ==
    /\ call.fn = "forecast_polynomial"
    /\ call.degree = 3
    /\ Succeeded(result)
    /\ result.metrics.degree = 3
    /\ DOMAIN result.metrics = {"mse", "rmse", "r2", "degree"}

\* The single-series forecast of entity e's rows alone, by the pipeline the
\* method argument names when upper and lower case are not distinguished.
SelectedIgnoringCase(e) ==
    IF Lower(call.method) = "polynomial"
    THEN forecast_polynomial(Alone(e), call.periods, DefaultDegree)
    ELSE forecast_linear(Alone(e), call.periods)

\* C17: forecast_by_region runs the polynomial pipeline when the method
\* argument is 'polynomial' in any mix of upper and lower case, and the
\* linear pipeline when it is 'linear': each entity's rows in the output
\* are those of the pipeline so selected.
C17_MethodSelection ==
    (BatchCall /\ HasBatchColumns /\ result.outcome = "returned") =>
        \A e \in Regions :
            Untagged(OutputRowsOf(e)) =
                IF Len(RegionRows(e)) >= 3 /\ Succeeded(SelectedIgnoringCase(e))
                THEN SelectedIgnoringCase(e).forecast_df
                ELSE <<>>

\* C19: no call changes the caller's dataset: after forecast_linear,
\* forecast_polynomial or forecast_by_region the dataset has the rows and
\* columns it had before, the entity column included.
C19_Purity == [][data' = data]_vars

C19_Witness ==
    /\ BatchCall /\ HasBatchColumns /\ result.outcome = "returned"
    /\ Len(RegionRows("A")) = 2
    /\ Len(RegionRows("B")) = 3
    /\ data.rows[1].region = "A"
    /\ result.forecast_df # <<>>
    /\ \A i \in DOMAIN result.forecast_df : result.forecast_df[i].region = "B"

\* The two smallest periods of the dataset and the line through their
\* per-period totals.
FirstPeriod == CHOOSE p \in InputPeriods : \A q \in InputPeriods : p <= q

SecondPeriod ==
    CHOOSE p \in InputPeriods \ {FirstPeriod} :
        \A q \in InputPeriods \ {FirstPeriod} : p <= q

LineSlope ==
    Rat(PeriodTotal(data.rows, SecondPeriod) - PeriodTotal(data.rows, FirstPeriod),
        SecondPeriod - FirstPeriod)

LineIntercept ==
    RSub(RInt(PeriodTotal(data.rows, FirstPeriod)),
         RMul(LineSlope, RInt(FirstPeriod)))

LineAt(p) == RAdd(RMul(LineSlope, RInt(p)), LineIntercept)

\* The aggregated points lie exactly on one line.
OnALine ==
    /\ DistinctPeriods >= 2
    /\ \A p \in InputPeriods : RInt(PeriodTotal(data.rows, p)) = LineAt(p)

\* C20: when the aggregated points lie exactly on a line y = a*p + b,
\* forecast_linear reports coefficient a and intercept b, a mean squared
\* error of 0 and an R2 of 1, and predicts a*p + b for every forecast
\* period.
C20_PerfectLinearFit ==
    (call.fn = "forecast_linear" /\ Succeeded(result) /\ OnALine) =>
        /\ result.metrics.coefficient = LineSlope
        /\ result.metrics.intercept = LineIntercept
        /\ result.metrics.mse = RInt(0)
        /\ result.metrics.r2 = RInt(1)
        /\ \A i \in DOMAIN result.forecast_df :
              result.forecast_df[i].type = "forecast" =>
                  result.forecast_df[i].sales = LineAt(result.forecast_df[i].year)

C20_Witness ==
    /\ call.fn = "forecast_linear"
    /\ call.periods = 1
    /\ data.rows = <<[year |-> 2010, sales |-> 100],
                     [year |-> 2011, sales |-> 200],
                     [year |-> 2012, sales |-> 300]>>
    /\ Succeeded(result)
    /\ result.metrics.coefficient = RInt(100)
    /\ result.metrics.mse = RInt(0)
    /\ result.metrics.r2 = RInt(1)
    /\ result.forecast_df[4] =
          [year |-> 2013, sales |-> RInt(400), type |-> "forecast"]

CleanCall == call.fn = "clean_data"

\* C21: every row clean_data returns for a table with the three columns
\* has an integer year, a numeric sales value that is not NaN and a region
\* that is a string without leading or trailing whitespace.
C21_CleaningGuarantee ==
    (/\ CleanCall /\ result.outcome = "returned"
     /\ data.columns = {region_col, time_col, target_col}) =>
        \A i \in DOMAIN result.cleaned_data.rows :
            LET row == result.cleaned_data.rows[i]
            IN  /\ IsInt(row[time_col])
                /\ IsInt(row[target_col]) \/ IsFloat(row[target_col])
                /\ IsStr(row[region_col])
                /\ row[region_col].str = <<>> \/
                      /\ Head(row[region_col].str) \notin Whitespace
                      /\ row[region_col].str[Len(row[region_col].str)]
                            \notin Whitespace

\* The stored record is the table row: same year, region and sales.
SameRow(record, row) ==
    /\ DOMAIN row = {time_col, region_col, target_col}
    /\ IsInt(row[time_col]) /\ record.year = row[time_col].int
    /\ record.region = row[region_col]
    /\ IsInt(row[target_col]) /\ record.sales = RInt(row[target_col].int)

\* The database holds exactly the rows of the table, in the table's order.
HoldsExactly(table) ==
    /\ Len(db) = Len(table.rows)
    /\ \A i \in DOMAIN db : SameRow(db[i], table.rows[i])

\* C22: whenever load_data_from_csv returns a table, and no database
\* operation met an error, the database holds exactly the rows of that
\* table.
C22_CsvLoadReplacesStore ==
    (/\ call.fn = "load_data_from_csv"
     /\ ~call.db_error
     /\ result.outcome = "returned") => HoldsExactly(result.data)

\* C23: load_sample_data writes to the database only when it is empty;
\* when the database has rows the call returns exactly those rows and
\* leaves the database as it was.
C23_SampleLoadCheckThenSeed ==
    [][call'.fn = "load_sample_data" =>
          /\ db' # db => db = EmptyTable
          /\ db # EmptyTable =>
                /\ db' = db
                /\ result'.data = RecordsFrame(db)]_vars

FilterCall == call.fn = "filter_data_from_db"

\* The record satisfies the bounds and the regions the call was given.
Passes(record) ==
    /\ call.min_year = None \/ call.min_year.some <= record.year
    /\ call.max_year = None \/ record.year <= call.max_year.some
    /\ \/ call.regions = None
       \/ call.regions.some = <<>>
       \/ \E i \in DOMAIN call.regions.some : call.regions.some[i] = record.region

Count(seq, x) == Cardinality({i \in DOMAIN seq : seq[i] = x})

RowOf(record) == RecordRows(<<record>>)[1]

\* C24: filter_data_from_db returns, and never raises; when the query
\* succeeded the rows returned are exactly the stored rows within the year
\* bounds given and of the regions given, each as often as it is stored,
\* an absent bound and an absent or empty regions list excluding nothing;
\* when the query failed the table returned is empty.
C24_FilterQuery ==
    FilterCall =>
        /\ result.outcome = "returned"
        /\ call.query_fails => result.data.rows = <<>>
        /\ ~call.query_fails =>
              /\ \A i \in DOMAIN db :
                    Count(result.data.rows, RowOf(db[i])) =
                        IF Passes(db[i]) THEN Count(db, db[i]) ELSE 0
              /\ \A k \in DOMAIN result.data.rows :
                    \E i \in DOMAIN db : result.data.rows[k] = RowOf(db[i])

C24_Witness ==
    /\ FilterCall
    /\ ~call.query_fails
    /\ call.min_year = Some(2)
    /\ call.max_year = None
    /\ call.regions = Some(<<StrCell(<<"A">>)>>)
    /\ Len(db) = 3
    /\ db[1].year = 1
    /\ db[2].region = StrCell(<<"B">>)
    /\ Len(result.data.rows) = 1
    /\ result.data.rows[1] = RowOf(db[3])

GrowthCall == call.fn = "calculate_growth_rates"

\* The distinct years of entity e, ascending.
YearsOf(e) == SortedSeq({RegionRows(e)[i].year : i \in DOMAIN RegionRows(e)})

\* The rate the claim gives for the step from year p to year q of entity e.
ClaimedRate(e, p, q) ==
    LET previous == PeriodTotal(RegionRows(e), p)
        current == PeriodTotal(RegionRows(e), q)
    IN  IF previous > 0
        THEN RMul(RDiv(RInt(current - previous), RInt(previous)), RInt(100))
        ELSE NaN

GrowthRecordsOf(e) ==
    SelectSeq(result.growth_rates, LAMBDA r : r.region = e)

C26_ErrorSignalsAgree ==
    (SingleCall /\ result.outcome = "returned") =>
        /\ (result.forecast_df = <<>>) <=> ("error" \in DOMAIN result.metrics)
        /\ (result.forecast_df = <<>>) <=> (result.model = None)

C26_Witness ==
    /\ call.fn = "forecast_linear"
    /\ call.periods = 1
    /\ result.outcome = "returned"
    /\ result.forecast_df # <<>>
    /\ "error" \notin DOMAIN result.metrics
    /\ result.model # None

\* The rows a batch result r carries for entity e, without the tag.
BatchRowsOf(r, e) == Untagged(SelectSeq(r.forecast_df, LAMBDA row : row.region = e))

\* The polynomial forecast of entity e's rows alone with the default degree,
\* or nothing when e has fewer rows than that degree needs.
DefaultDegreeSeries(e, periods) ==
    IF Len(RegionRows(e)) < DefaultDegree + 1 THEN <<>>
    ELSE forecast_polynomial(Alone(e), periods, DefaultDegree).forecast_df

\* The linear forecast of entity e's rows alone, or nothing when e has fewer
\* than 3 rows.
LinearSeries(e, periods) ==
    IF Len(RegionRows(e)) < 3 THEN <<>>
    ELSE forecast_linear(Alone(e), periods).forecast_df

\* C27: forecast_by_region with method 'polynomial' fits every entity with
\* degree 2, whatever degree the forecasting page's slider holds, so that
\* its skip threshold of 3 rows is degree + 1; with any other method string
\* (for one, 'Polynomial') it fits every entity linearly.
C27_BatchPolynomialDegree ==
    /\ RegionMinRows = DefaultDegree + 1
    /\ (BatchCall /\ result.outcome = "returned") =>
          \A e \in Regions :
              BatchRowsOf(result, e) =
                  IF call.method = "polynomial"
                  THEN DefaultDegreeSeries(e, call.periods)
                  ELSE LinearSeries(e, call.periods)
    /\ (/\ call.fn = "app" /\ call.forecast_method = "Polynomial"
        /\ call.regions # {} /\ page.regional # NoResult
        /\ page.regional.outcome = "returned") =>
          \A e \in call.regions :
              BatchRowsOf(page.regional, e) = DefaultDegreeSeries(e, call.periods)

C27_Witness ==
    /\ call.fn = "app"
    /\ call.forecast_method = "Polynomial"
    /\ call.degree = 3
    /\ call.regions = {"A"}
    /\ Len(RegionRows("A")) = 3
    /\ page.regional # NoResult
    /\ page.regional.outcome = "returned"
    /\ BatchRowsOf(page.regional, "A") # <<>>
    /\ BatchRowsOf(page.regional, "A") = DefaultDegreeSeries("A", call.periods)

\* The number of points the model selected on a page needs.
PageRequiredPoints ==
    IF call.fn = "app"
    THEN IF call.forecast_method = "Linear" THEN MinRows ELSE call.degree + 1
    ELSE IF call.model_type = "Linear" THEN MinRows ELSE call.degree + 1

\* C28: on the global paths of the two pages the table handed to the
\* forecaster has one row per distinct year of the data, the forecaster
\* returns its insufficient-data result exactly when the data has fewer
\* distinct years than the model needs, and the page then takes its
\* empty-forecast branch (the error message of pages/forecasting.py; no
\* chart and no message on the dashboard page) and in no other case.
C28_GlobalPreAggregation ==
    /\ call.fn = "app" =>
          /\ Len(GlobalData(data).rows) = DistinctPeriods
          /\ ErrorResult(page.global) <=> DistinctPeriods < PageRequiredPoints
          /\ page.global_display = "insufficient_data"
                <=> DistinctPeriods < PageRequiredPoints
    /\ (call.fn = "forecasting_page" /\ call.scope = "Global") =>
          /\ Len(DashboardGlobalData(data).rows) = DistinctPeriods
          /\ ErrorResult(page.forecast) <=> DistinctPeriods < PageRequiredPoints
          /\ page.display = "none" <=> DistinctPeriods < PageRequiredPoints

\* Four rows over two years: enough rows for the linear model, too few years.
C28_Witness ==
    /\ call.fn = "app"
    /\ call.forecast_method = "Linear"
    /\ Len(data.rows) = 4
    /\ DistinctPeriods = 2
    /\ page.global_display = "insufficient_data"

\* The table after: the table before followed by one record per row of the
\* DataFrame, in order.
AllRowsAppended(before, rows, after) ==
    /\ Len(after) = Len(before) + Len(rows)
    /\ SubSeq(after, 1, Len(before)) = before
    /\ \A i \in DOMAIN rows : SameRow(after[Len(before) + i], rows[i])

\* C29: a call of save_data_to_db returns (it does not raise), and either
\* returns True with one record per row of the DataFrame added to the
\* table, or returns False with the table as it was before the call; never
\* are some of the rows stored and others not.
C29_AtomicSave ==
    [][call'.fn = "save_data_to_db" =>
          /\ result'.outcome = "returned"
          /\ \/ /\ result'.value = TRUE
                /\ AllRowsAppended(db, call'.data_df.rows, db')
             \/ /\ result'.value = FALSE
                /\ db' = db]_vars

\* A saved table whose first row converts and whose second does not: the
\* call returned False and the first row's record is not in the table.
C29_Witness ==
    /\ call.fn = "save_data_to_db"
    /\ ~call.commit_fails
    /\ Len(call.data_df.rows) = 2
    /\ ~EVData(call.data_df.columns, call.data_df.rows[1]).raised
    /\ EVData(call.data_df.columns, call.data_df.rows[2]).raised
    /\ result.value = FALSE
    /\ Len(db) = 1
    /\ ~SameRow(db[1], call.data_df.rows[1])

RerunCall == call.fn = "app.py"

\* C30: at the end of every rerun, in whatever order sample loads, uploads
\* and their failures came, cleaned_data is non-null only if data is
\* non-null; after a rerun whose load attempt failed both are null; and the
\* filter and navigation section ran only with both non-null.
C30_SessionLoadState ==
    /\ session_state.cleaned_data # None => session_state.data # None
    /\ (RerunCall /\ result.load = "failed") =>
          /\ session_state.data = None
          /\ session_state.cleaned_data = None
          /\ page.section = "info"
    /\ (RerunCall /\ page.section = "filters") =>
          /\ session_state.data # None
          /\ session_state.cleaned_data # None

\* A sample rerun that failed after data and cleaned_data had been assigned
\* (the metadata lists came back empty and the cleaned table had no region
\* column), in a database that holds rows.
C30_Witness ==
    /\ RerunCall
    /\ call.data_source = "Use sample data"
    /\ result.load = "failed"
    /\ session_state.regions = <<>>
    /\ db # EmptyTable
    /\ session_state.data = None
    /\ session_state.cleaned_data = None

=============================================================================
